---- MODULE Spec2Model ----
(***************************************************************************)
(* State-machine model of ytbv (src/src/main.rs): the coordinator loop of  *)
(* main (poll a key, handle it, drain the worker channel), the key handler *)
(* handle_key, queue_thumbnail, and the two kinds of worker thread (search *)
(* and thumbnail download) that report through one mpsc channel.           *)
(*                                                                         *)
(* Indices (selected, a thumbnail task's index, cursor) are 0-based as in  *)
(* the Rust source; TLA+ sequences are 1-based, so results.get(i) reads    *)
(* results[i + 1].                                                         *)
(*                                                                         *)
(* The channel is a bag, not a queue: every worker thread sends exactly    *)
(* one message and the threads are scheduled independently, so the order   *)
(* in which queued messages were sent is an arbitrary interleaving; the    *)
(* drain loop receives any queued message and leaves only when none is     *)
(* queued.                                                                 *)
(***************************************************************************)
EXTENDS Integers, Sequences, FiniteSets, Bags, TLC

(***************************************************************************)
(* Bounds of the model.                                                    *)
(***************************************************************************)
\* most worker threads alive at once (running, or their message not yet
\* received): the user presses no key that would spawn one more
MaxThreads == 2
\* longest query buffer, in bytes, that further characters are typed into
MaxQueryBytes == 2
\* fit_dimensions_cells is called on every image side of 0..MaxImageDim pixels
\* and every bound side of 0..MaxBoundDim cells (and on a few larger ones)
MaxImageDim == 6
MaxBoundDim == 3

VARIABLES
    query,        \* App.query: the UTF-8 bytes of the String
    cursor,       \* App.cursor
    results,      \* App.results: sequence of Video records
    selected,     \* App.selected
    status,       \* App.status
    searching,    \* App.searching
    focus,        \* App.focus: "Search" or "Results"
    chan,         \* the mpsc channel (tx -> rx): the bag of AppMsg values sent, not yet received
    searchTasks,  \* number of search threads that have not sent their AppMsg yet
    thumbTasks,   \* bag of thumbnail threads that have not sent their AppMsg yet
    pc,           \* position of the main thread: "poll" (event::poll), "tick"
                  \* (handle_key has returned), "drain" (the try_recv loop),
                  \* "done" (the loop has broken), "panicked"
    key,          \* the key code of the key press being handled (NoKey outside)
    term,         \* the terminal size f.size() reports: <<columns, rows>>
    thumb_area,   \* App.thumb_area: Option<Rect>
    last_thumb,   \* App.last_thumb: Option<ThumbRender>
    blitted,      \* history: what the latest render_thumbnail call handed to
                  \* viuer::print_from_file (None: it printed nothing)
    frame,        \* history: the (path, area) the latest frame had to show, if any
    emitted,      \* history: the latest (path, area) printed before the latest frame
    files,        \* the thumbnail cache directory: the state of the file at each path
    network,      \* history: how often each URL has been downloaded (reqwest get
                  \* and response.bytes() returning the bytes)
    written,      \* history: how often fs::write has been called on each path
    fit_args,     \* the arguments of a call of fit_dimensions_cells
    fit_ret       \* what the call returned (None: not called yet)

vars == <<query, cursor, results, selected, status, searching, focus,
          chan, searchTasks, thumbTasks, pc, key,
          term, thumb_area, last_thumb, blitted, frame, emitted,
          files, network, written, fit_args, fit_ret>>

appVars == <<query, cursor, results, selected, status, searching, focus>>

\* rendering: the terminal, the thumbnail rectangle and the render-diff guard
renderVars == <<term, thumb_area, last_thumb, blitted, frame, emitted>>

\* the thumbnail cache directory and the network
cacheVars == <<files, network, written>>

\* a call of fit_dimensions_cells on its own
fitVars == <<fit_args, fit_ret>>

\* what handle_key, the drain loop and the worker threads' messages leave alone
auxVars == <<renderVars, cacheVars, fitVars>>

(***************************************************************************)
(* Option<T>: None is the empty sequence, Some(x) the one-element sequence *)
(***************************************************************************)
None == <<>>
Some(x) == <<x>>

(***************************************************************************)
(* Strings.  A String is its sequence of UTF-8 bytes; the characters typed *)
(* are "a", "q", " " (one byte each) and "é" (two bytes, C3 A9).           *)
(***************************************************************************)
Chars == {"a", "q", " ", "é"}

Utf8(c) == IF c = "é" THEN <<"c3", "a9">> ELSE <<c>>

IsContinuationByte(b) == b = "a9"

IsWhitespace(b) == b = " "

\* str::is_char_boundary(idx), idx a 0-based byte offset
is_char_boundary(s, idx) ==
    \/ idx = 0
    \/ idx = Len(s)
    \/ idx < Len(s) /\ ~IsContinuationByte(s[idx + 1])

\* s.chars().count()
chars_count(s) == Cardinality({i \in 1..Len(s) : ~IsContinuationByte(s[i])})

\* number of bytes of the character that starts at byte offset idx
char_len_at(s, idx) ==
    IF idx + 2 <= Len(s) /\ IsContinuationByte(s[idx + 2]) THEN 2 ELSE 1

\* String::insert(idx, c) panics unless idx is a char boundary
insert_panics(s, idx) == ~is_char_boundary(s, idx)

insert(s, idx, c) == SubSeq(s, 1, idx) \o Utf8(c) \o SubSeq(s, idx + 1, Len(s))

\* String::remove(idx) panics unless idx is a char boundary before the end
remove_panics(s, idx) == ~is_char_boundary(s, idx) \/ idx >= Len(s)

remove(s, idx) ==
    SubSeq(s, 1, idx) \o SubSeq(s, idx + char_len_at(s, idx) + 1, Len(s))

RECURSIVE trim_start(_)
trim_start(s) ==
    IF s # <<>> /\ IsWhitespace(Head(s)) THEN trim_start(Tail(s)) ELSE s

RECURSIVE trim_end(_)
trim_end(s) ==
    IF s # <<>> /\ IsWhitespace(s[Len(s)])
    THEN trim_end(SubSeq(s, 1, Len(s) - 1))
    ELSE s

\* str::trim
trim(s) == trim_end(trim_start(s))

\* the text of a byte sequence, for status lines
RECURSIVE Text(_)
Text(s) == IF s = <<>> THEN "" ELSE Head(s) \o Text(Tail(s))

(***************************************************************************)
(* Thumbnail URLs and cache paths.                                         *)
(***************************************************************************)
UrlA == <<"A", "1">>
UrlB == <<"b", "/">>

IsAsciiAlphanumeric(c) == c \in {"A", "a", "b", "1"}

ToAsciiLowercase(c) == IF c = "A" THEN "a" ELSE c

max_len == 80

\* safe_filename(url)
safe_filename(url) ==
    LET name == [i \in 1..Len(url) |->
                    IF IsAsciiAlphanumeric(url[i])
                    THEN ToAsciiLowercase(url[i]) ELSE "_"]
        cut  == IF Len(name) > max_len THEN SubSeq(name, 1, max_len) ELSE name
    IN  Text(cut) \o ".img"

(***************************************************************************)
(* fit_dimensions_cells: the size in terminal cells (one cell shows two    *)
(* pixel rows) at which an image of img_width x img_height pixels is shown *)
(* inside bound_width x bound_height cells.                                *)
(***************************************************************************)
Max(a, b) == IF a >= b THEN a ELSE b

\* `x as u16` of a u32
AsU16(x) == x % 65536

\* u32::saturating_mul.  Every product the model forms is far below
\* u32::MAX = 2^32 - 1 (its factors are below 2^8), where it is the product
saturating_mul(a, b) == a * b

\* u16::saturating_sub
saturating_sub(a, b) == IF a >= b THEN a - b ELSE 0

\* mutant of native_height: the height is rounded down
native_height_RoundedDown(img_height) == Max(1, img_height \div 2)

\* the cell height of an image that fits as it is
native_height(img_height) == Max(1, (img_height \div 2) + (img_height % 2))

\* mutant of use_width: the comparison is the wrong way round
use_width_Inverted(img_width, img_height, bound_width, bound_height_px) ==
    saturating_mul(bound_width, img_height)
        >= saturating_mul(img_width, bound_height_px)

\* whether the width is the binding dimension
use_width(img_width, img_height, bound_width, bound_height_px) ==
    LET ratio  == saturating_mul(img_width, bound_height_px)
        nratio == saturating_mul(bound_width, img_height)
    IN  nratio <= ratio

fit_dimensions_cells(img_width, img_height, bound_width, bound_height) ==
    IF img_width = 0 \/ img_height = 0 \/ bound_width = 0 \/ bound_height = 0
    THEN <<0, 0>>
    ELSE
      LET bound_height_px == bound_height * 2 IN
      IF img_width <= bound_width /\ img_height <= bound_height_px
      THEN <<AsU16(img_width), AsU16(native_height(img_height))>>
      ELSE
        LET uw == use_width(img_width, img_height, bound_width, bound_height_px)
            intermediate ==
                IF uw
                THEN saturating_mul(img_height, bound_width) \div img_width
                ELSE saturating_mul(img_width, bound_height_px) \div img_height
        IN  IF uw
            THEN <<bound_width, AsU16(Max(1, intermediate \div 2))>>
            ELSE <<AsU16(intermediate), AsU16(Max(1, bound_height_px \div 2))>>

(***************************************************************************)
(* Videos.  A search worker builds each Video with video_item_to_video:    *)
(* no path, no size, not loading.                                          *)
(***************************************************************************)
video_item_to_video(title, url) ==
    [title |-> title, thumbnail_url |-> url, thumbnail_path |-> None,
     thumbnail_size |-> None, thumbnail_loading |-> FALSE]

VideoA == video_item_to_video("A", Some(UrlA))
VideoB == video_item_to_video("B", Some(UrlB))
VideoN == video_item_to_video("N", None)

\* the lists search_rustypipe returns as Ok(results): none, two videos with
\* thumbnails, and a video without a thumbnail URL before one with
SearchLists == {<<>>, <<VideoA, VideoB>>, <<VideoN, VideoA>>}

SearchErrors == {"RustyPipe search failed"}

\* download_thumbnail's Err messages (cache dir, download, read, write), by
\* one representative
ThumbErrors == {"Download error"}

\* what thumbnail_size_from_path can return for a downloaded file
ImageSizes == {None, Some(<<160, 90>>)}

(***************************************************************************)
(* Messages and worker threads.                                            *)
(***************************************************************************)
\* AppMsg::Search(result)
SearchMsg(ok, val) == [kind |-> "Search", ok |-> ok, val |-> val]

\* AppMsg::Thumbnail { index, result }.  stale is history, not program state:
\* whether app.results has been replaced since the sending thread was spawned
ThumbnailMsg(index, ok, val, stale) ==
    [kind |-> "Thumbnail", index |-> index, ok |-> ok, val |-> val, stale |-> stale]

\* the closure queue_thumbnail hands to thread::spawn: it owns index and url
\* (stale: history, as above; at: the thread's position in download_thumbnail,
\* "exists" before path.exists(), "get" before the request, "write" before
\* fs::write, "writing" inside it)
ThumbTask(index, url) ==
    [index |-> index, url |-> url, stale |-> FALSE, at |-> "exists"]

\* history update when app.results is replaced: every thumbnail thread and
\* every queued thumbnail message now belongs to an older list
MarkStale(B) ==
    LET old(e) == IF "stale" \in DOMAIN e THEN [e EXCEPT !.stale = TRUE] ELSE e
        new(e) == [e EXCEPT !.stale = FALSE]
    IN  [x \in {old(e) : e \in BagToSet(B)} |->
            IF "stale" \in DOMAIN x
            THEN CopiesIn(x, B) + CopiesIn(new(x), B)
            ELSE CopiesIn(x, B)]

\* worker threads alive: running, or their message not yet received
ThreadsAlive ==
    searchTasks + BagCardinality(thumbTasks) + BagCardinality(chan)

\* download_thumbnail(url) on success: the cache path of the url (the cache
\* directory is the same for every url, so the file name stands for the path)
download_thumbnail_path(url) == safe_filename(url)

KeyCode(code, ch) == [code |-> code, ch |-> ch]

NoKey == KeyCode("None", "")

(***************************************************************************)
(* queue_thumbnail(app, index): the new app.results and the bag of threads *)
(* it spawns (none or one), for the result list res.                       *)
(***************************************************************************)
\* mutant of NeedsThumbnail: only the first result is ever fetched
NeedsThumbnail_OnlyFirst(res, index) ==
    /\ index = 0
    /\ index < Len(res)
    /\ res[index + 1].thumbnail_path = None
    /\ ~res[index + 1].thumbnail_loading
    /\ res[index + 1].thumbnail_url # None

NeedsThumbnail(res, index) ==
    /\ index < Len(res)
    /\ res[index + 1].thumbnail_path = None
    /\ ~res[index + 1].thumbnail_loading
    /\ res[index + 1].thumbnail_url # None

\* mutant of queue_thumbnail: the spawned thread carries the wrong index
queue_thumbnail_WrongIndex(res, index) ==
    IF NeedsThumbnail(res, index)
    THEN [results |-> [res EXCEPT ![index + 1].thumbnail_loading = TRUE],
          spawned |-> SetToBag({ThumbTask(index + 1, res[index + 1].thumbnail_url[1])})]
    ELSE [results |-> res, spawned |-> EmptyBag]

queue_thumbnail(res, index) ==
    IF NeedsThumbnail(res, index)
    THEN [results |-> [res EXCEPT ![index + 1].thumbnail_loading = TRUE],
          spawned |-> SetToBag({ThumbTask(index, res[index + 1].thumbnail_url[1])})]
    ELSE [results |-> res, spawned |-> EmptyBag]

(***************************************************************************)
(* The terminal and the thumbnail cache directory.                         *)
(***************************************************************************)
\* the sizes the terminal takes: wide, wider, and too narrow for a thumbnail
TermSizes == {<<80, 24>>, <<100, 24>>, <<50, 24>>}

Urls == {UrlA, UrlB}

\* the cache path of every URL
CachePaths == {safe_filename(url) : url \in Urls}

\* a file is "absent", "partial" (created, its bytes not all written) or
\* "complete"
EmptyCache == [p \in CachePaths |-> "absent"]

\* history counters: "never", "once", "again" (more than once)
Counted(n) == IF n = "never" THEN "once" ELSE "again"

NoneCounted(S) == [x \in S |-> "never"]

(***************************************************************************)
(* Initial state: App as main constructs it, an empty channel, no threads, *)
(* and the first frame drawn: with no results it shows no thumbnail.       *)
(***************************************************************************)
InitApp ==
    /\ query = <<>>
    /\ cursor = 0
    /\ results = <<>>
    /\ selected = 0
    /\ status = "Type a query and press Enter."
    /\ searching = FALSE
    /\ focus = "Search"
    /\ chan = EmptyBag
    /\ searchTasks = 0
    /\ thumbTasks = EmptyBag
    /\ pc = "poll"
    /\ key = NoKey
    /\ term = <<80, 24>>
    /\ thumb_area = None
    /\ last_thumb = None
    /\ blitted = None
    /\ frame = None
    /\ emitted = None
    /\ network = NoneCounted(Urls)
    /\ written = NoneCounted(CachePaths)

\* no call of fit_dimensions_cells is singled out
NoFitCall == fit_args = <<0, 0, 0, 0>> /\ fit_ret = None

Init == InitApp /\ files = EmptyCache /\ NoFitCall

(***************************************************************************)
(* handle_key, one action per key code.  Each is taken at the poll of the  *)
(* main loop; key keeps the code until the `if let Event::Key(key)` block  *)
(* is left (Tick), and the loop goes on to drain the channel.              *)
(***************************************************************************)
\* event::poll timed out, or the event was not a key press
PollTimeout ==
    /\ pc = "poll"
    /\ pc' = "drain"
    /\ key' = NoKey
    /\ UNCHANGED <<appVars, chan, searchTasks, thumbTasks>>
    /\ UNCHANGED auxVars

\* KeyCode::Char('q') => return Ok(true): the loop breaks
KeyQuit ==
    /\ pc = "poll"
    /\ pc' = "done"
    /\ key' = KeyCode("Char", "q")
    /\ UNCHANGED <<appVars, chan, searchTasks, thumbTasks>>
    /\ UNCHANGED auxVars

\* mutant of CanSubmit: the searching flag is not consulted
CanSubmit_NoThrottle == trim(query) # <<>>

\* the submit condition of KeyCode::Enter in Focus::Search
CanSubmit == trim(query) # <<>> /\ ~searching

KeyEnter ==
    /\ pc = "poll"
    /\ focus = "Search" /\ CanSubmit => ThreadsAlive < MaxThreads
    /\ pc' = "tick"
    /\ key' = KeyCode("Enter", "")
    /\ IF focus = "Search"
       THEN IF CanSubmit
            THEN /\ searching' = TRUE
                 /\ status' = "Searching for '" \o Text(trim(query)) \o "'..."
                 /\ searchTasks' = searchTasks + 1
            ELSE UNCHANGED <<searching, status, searchTasks>>
       ELSE /\ status' = IF selected < Len(results)
                         THEN "Playing: " \o results[selected + 1].title
                         ELSE status
            /\ UNCHANGED <<searching, searchTasks>>
    /\ UNCHANGED <<query, cursor, results, selected, focus, chan, thumbTasks>>
    /\ UNCHANGED auxVars

KeyUp ==
    /\ pc = "poll"
    /\ focus = "Results" /\ selected > 0 /\ NeedsThumbnail(results, selected - 1)
          => ThreadsAlive < MaxThreads
    /\ pc' = "tick"
    /\ key' = KeyCode("Up", "")
    /\ IF focus = "Results"
       THEN IF selected > 0
            THEN LET q == queue_thumbnail(results, selected - 1)
                 IN  /\ selected' = selected - 1
                     /\ results' = q.results
                     /\ thumbTasks' = thumbTasks (+) q.spawned
                     /\ UNCHANGED focus
            ELSE /\ focus' = "Search"
                 /\ UNCHANGED <<selected, results, thumbTasks>>
       ELSE UNCHANGED <<focus, selected, results, thumbTasks>>
    /\ UNCHANGED <<query, cursor, status, searching, chan, searchTasks>>
    /\ UNCHANGED auxVars

\* mutant of CanMoveDown: the bound is off by one
CanMoveDown_OffByOne == selected + 1 <= Len(results)

\* the guard of KeyCode::Down in Focus::Results
CanMoveDown == selected + 1 < Len(results)

\* mutant of KeyDown: Focus::Search does not look at the result list
KeyDown_NoEmptyCheck ==
    /\ pc = "poll"
    /\ \/ focus = "Search" /\ NeedsThumbnail(results, selected)
       \/ focus = "Results" /\ CanMoveDown /\ NeedsThumbnail(results, selected + 1)
       => ThreadsAlive < MaxThreads
    /\ pc' = "tick"
    /\ key' = KeyCode("Down", "")
    /\ IF focus = "Search"
       THEN LET q == queue_thumbnail(results, selected)
            IN  /\ focus' = "Results"
                /\ results' = q.results
                /\ thumbTasks' = thumbTasks (+) q.spawned
                /\ UNCHANGED selected
       ELSE IF CanMoveDown
            THEN LET q == queue_thumbnail(results, selected + 1)
                 IN  /\ selected' = selected + 1
                     /\ results' = q.results
                     /\ thumbTasks' = thumbTasks (+) q.spawned
                     /\ UNCHANGED focus
            ELSE UNCHANGED <<focus, selected, results, thumbTasks>>
    /\ UNCHANGED <<query, cursor, status, searching, chan, searchTasks>>
    /\ UNCHANGED auxVars

KeyDown ==
    /\ pc = "poll"
    /\ \/ focus = "Search" /\ NeedsThumbnail(results, selected)
       \/ focus = "Results" /\ CanMoveDown /\ NeedsThumbnail(results, selected + 1)
       => ThreadsAlive < MaxThreads
    /\ pc' = "tick"
    /\ key' = KeyCode("Down", "")
    /\ IF focus = "Search"
       THEN IF results # <<>>
            THEN LET q == queue_thumbnail(results, selected)
                 IN  /\ focus' = "Results"
                     /\ results' = q.results
                     /\ thumbTasks' = thumbTasks (+) q.spawned
                     /\ UNCHANGED selected
            ELSE UNCHANGED <<focus, selected, results, thumbTasks>>
       ELSE IF CanMoveDown
            THEN LET q == queue_thumbnail(results, selected + 1)
                 IN  /\ selected' = selected + 1
                     /\ results' = q.results
                     /\ thumbTasks' = thumbTasks (+) q.spawned
                     /\ UNCHANGED focus
            ELSE UNCHANGED <<focus, selected, results, thumbTasks>>
    /\ UNCHANGED <<query, cursor, status, searching, chan, searchTasks>>
    /\ UNCHANGED auxVars

KeyBackspace ==
    /\ pc = "poll"
    /\ key' = KeyCode("Backspace", "")
    /\ IF focus = "Search" /\ cursor > 0
       THEN /\ cursor' = cursor - 1
            /\ IF remove_panics(query, cursor - 1)
               THEN pc' = "panicked" /\ UNCHANGED query
               ELSE pc' = "tick" /\ query' = remove(query, cursor - 1)
       ELSE pc' = "tick" /\ UNCHANGED <<query, cursor>>
    /\ UNCHANGED <<results, selected, status, searching, focus,
                   chan, searchTasks, thumbTasks>>
    /\ UNCHANGED auxVars

KeyLeft ==
    /\ pc = "poll"
    /\ pc' = "tick"
    /\ key' = KeyCode("Left", "")
    /\ cursor' = IF focus = "Search" /\ cursor > 0 THEN cursor - 1 ELSE cursor
    /\ UNCHANGED <<query, results, selected, status, searching, focus,
                   chan, searchTasks, thumbTasks>>
    /\ UNCHANGED auxVars

KeyRight ==
    /\ pc = "poll"
    /\ pc' = "tick"
    /\ key' = KeyCode("Right", "")
    /\ cursor' = IF focus = "Search" /\ cursor < chars_count(query)
                 THEN cursor + 1 ELSE cursor
    /\ UNCHANGED <<query, results, selected, status, searching, focus,
                   chan, searchTasks, thumbTasks>>
    /\ UNCHANGED auxVars

\* KeyCode::Char(c) for c other than 'q', which the first arm has taken
KeyChar(c) ==
    /\ pc = "poll"
    /\ c # "q"
    /\ focus = "Search" /\ ~insert_panics(query, cursor)
          => Len(query) + Len(Utf8(c)) <= MaxQueryBytes
    /\ key' = KeyCode("Char", c)
    /\ IF focus = "Search"
       THEN IF insert_panics(query, cursor)
            THEN pc' = "panicked" /\ UNCHANGED <<query, cursor>>
            ELSE /\ pc' = "tick"
                 /\ query' = insert(query, cursor, c)
                 /\ cursor' = cursor + 1
       ELSE pc' = "tick" /\ UNCHANGED <<query, cursor>>
    /\ UNCHANGED <<results, selected, status, searching, focus,
                   chan, searchTasks, thumbTasks>>
    /\ UNCHANGED auxVars

\* any other key code: the `_ => {}` arm
KeyOther ==
    /\ pc = "poll"
    /\ pc' = "tick"
    /\ key' = KeyCode("Other", "")
    /\ UNCHANGED <<appVars, chan, searchTasks, thumbTasks>>
    /\ UNCHANGED auxVars

\* the key press is handled: on to the tick bookkeeping and the drain loop
Tick ==
    /\ pc = "tick"
    /\ pc' = "drain"
    /\ key' = NoKey
    /\ UNCHANGED <<appVars, chan, searchTasks, thumbTasks>>
    /\ UNCHANGED auxVars

(***************************************************************************)
(* The drain loop of main: while let Ok(msg) = app.rx.try_recv().          *)
(***************************************************************************)
DrainSearchOk(msg) ==
    /\ pc = "drain"
    /\ BagIn(msg, chan)
    /\ msg.kind = "Search"
    /\ msg.ok
    /\ LET list == msg.val
           q    == IF list # <<>>
                   THEN queue_thumbnail(list, 0)
                   ELSE [results |-> list, spawned |-> EmptyBag]
       IN  /\ searching' = FALSE
           /\ results' = q.results
           /\ selected' = 0
           /\ focus' = IF list # <<>> THEN "Results" ELSE focus
           /\ thumbTasks' = MarkStale(thumbTasks) (+) q.spawned
           /\ status' = "Found " \o ToString(Len(list)) \o " results."
    /\ chan' = MarkStale(chan (-) SetToBag({msg}))
    /\ UNCHANGED <<query, cursor, searchTasks, pc, key>>
    /\ UNCHANGED auxVars

\* mutant of DrainSearchErr: a failed search also drops the old results
DrainSearchErr_ClearsResults(msg) ==
    /\ pc = "drain"
    /\ BagIn(msg, chan)
    /\ msg.kind = "Search"
    /\ ~msg.ok
    /\ searching' = FALSE
    /\ status' = msg.val
    /\ results' = <<>>
    /\ chan' = chan (-) SetToBag({msg})
    /\ UNCHANGED <<query, cursor, selected, focus,
                   searchTasks, thumbTasks, pc, key>>
    /\ UNCHANGED auxVars

\* mutant of DrainSearchErr: a failed search leaves the searching flag set
DrainSearchErr_LeavesSearching(msg) ==
    /\ pc = "drain"
    /\ BagIn(msg, chan)
    /\ msg.kind = "Search"
    /\ ~msg.ok
    /\ status' = msg.val
    /\ chan' = chan (-) SetToBag({msg})
    /\ UNCHANGED <<query, cursor, results, selected, searching, focus,
                   searchTasks, thumbTasks, pc, key>>
    /\ UNCHANGED auxVars

DrainSearchErr(msg) ==
    /\ pc = "drain"
    /\ BagIn(msg, chan)
    /\ msg.kind = "Search"
    /\ ~msg.ok
    /\ searching' = FALSE
    /\ status' = msg.val
    /\ chan' = chan (-) SetToBag({msg})
    /\ UNCHANGED <<query, cursor, results, selected, focus,
                   searchTasks, thumbTasks, pc, key>>
    /\ UNCHANGED auxVars

\* whether the drain applies a Thumbnail message: app.results.get_mut(index)
ThumbnailApplies(msg) == msg.index < Len(results)

DrainThumbnailOk(msg) ==
    /\ pc = "drain"
    /\ BagIn(msg, chan)
    /\ msg.kind = "Thumbnail"
    /\ msg.ok
    /\ IF ThumbnailApplies(msg)
           THEN /\ \E size \in ImageSizes :
                      results' = [results EXCEPT
                                    ![msg.index + 1].thumbnail_loading = FALSE,
                                    ![msg.index + 1].thumbnail_size = size,
                                    ![msg.index + 1].thumbnail_path = Some(msg.val)]
                /\ status' = "Thumbnail ready."
           ELSE UNCHANGED <<results, status>>
    /\ chan' = chan (-) SetToBag({msg})
    /\ UNCHANGED <<query, cursor, selected, searching, focus,
                   searchTasks, thumbTasks, pc, key>>
    /\ UNCHANGED auxVars

\* mutant of DrainThumbnailErr: a failed fetch is queued again at once
DrainThumbnailErr_Retries(msg) ==
    /\ pc = "drain"
    /\ BagIn(msg, chan)
    /\ msg.kind = "Thumbnail"
    /\ ~msg.ok
    /\ IF ThumbnailApplies(msg)
           THEN LET cleared == [results EXCEPT
                                  ![msg.index + 1].thumbnail_loading = FALSE]
                    q == queue_thumbnail(cleared, msg.index)
                IN  /\ results' = q.results
                    /\ thumbTasks' = thumbTasks (+) q.spawned
                    /\ status' = msg.val
           ELSE UNCHANGED <<results, status, thumbTasks>>
    /\ chan' = chan (-) SetToBag({msg})
    /\ UNCHANGED <<query, cursor, selected, searching, focus,
                   searchTasks, pc, key>>
    /\ UNCHANGED auxVars

DrainThumbnailErr(msg) ==
    /\ pc = "drain"
    /\ BagIn(msg, chan)
    /\ msg.kind = "Thumbnail"
    /\ ~msg.ok
    /\ IF ThumbnailApplies(msg)
           THEN /\ results' = [results EXCEPT
                                 ![msg.index + 1].thumbnail_loading = FALSE]
                /\ status' = msg.val
           ELSE UNCHANGED <<results, status>>
    /\ chan' = chan (-) SetToBag({msg})
    /\ UNCHANGED <<query, cursor, selected, searching, focus,
                   searchTasks, thumbTasks, pc, key>>
    /\ UNCHANGED auxVars

\* try_recv() finds the channel empty: the loop goes round to the next poll
DrainEmpty ==
    /\ pc = "drain"
    /\ chan = EmptyBag
    /\ pc' = "poll"
    /\ UNCHANGED <<appVars, chan, searchTasks, thumbTasks, key>>
    /\ UNCHANGED auxVars

(***************************************************************************)
(* Worker threads.  They run while the process does: a quit or a panic of  *)
(* the main thread ends the process and every thread with it.              *)
(***************************************************************************)
Running == pc \in {"poll", "tick", "drain"}

\* the search thread: search_rustypipe returned Ok(results), then tx.send
SearchWorkerOk(list) ==
    /\ Running
    /\ searchTasks > 0
    /\ chan' = chan (+) SetToBag({SearchMsg(TRUE, list)})
    /\ searchTasks' = searchTasks - 1
    /\ UNCHANGED <<appVars, thumbTasks, pc, key>>
    /\ UNCHANGED auxVars

\* the search thread: search_rustypipe returned Err(message), then tx.send
SearchWorkerErr ==
    /\ Running
    /\ searchTasks > 0
    /\ \E err \in SearchErrors : chan' = chan (+) SetToBag({SearchMsg(FALSE, err)})
    /\ searchTasks' = searchTasks - 1
    /\ UNCHANGED <<appVars, thumbTasks, pc, key>>
    /\ UNCHANGED auxVars

\* a thumbnail thread: download_thumbnail returned Ok(path), then tx.send
ThumbWorkerOk ==
    /\ Running
    /\ \E t \in BagToSet(thumbTasks) :
          /\ chan' = chan (+) SetToBag({ThumbnailMsg(t.index, TRUE,
                                       download_thumbnail_path(t.url), t.stale)})
          /\ thumbTasks' = thumbTasks (-) SetToBag({t})
    /\ UNCHANGED <<appVars, searchTasks, pc, key>>
    /\ UNCHANGED auxVars

\* a thumbnail thread: download_thumbnail returned Err(message), then tx.send
ThumbWorkerErr ==
    /\ Running
    /\ \E t \in BagToSet(thumbTasks), err \in ThumbErrors :
          /\ chan' = chan (+) SetToBag({ThumbnailMsg(t.index, FALSE, err, t.stale)})
          /\ thumbTasks' = thumbTasks (-) SetToBag({t})
    /\ UNCHANGED <<appVars, searchTasks, pc, key>>
    /\ UNCHANGED auxVars

\* the user types a one-character query
SubmitChars == {"a"}

Next ==
    \/ PollTimeout
    \/ KeyQuit
    \/ KeyEnter
    \/ KeyUp
    \/ KeyDown
    \/ KeyBackspace
    \/ KeyLeft
    \/ KeyRight
    \/ \E c \in SubmitChars : KeyChar(c) /\ query = <<>>
    \/ KeyOther
    \/ Tick
    \/ \E msg \in BagToSet(chan) : DrainSearchOk(msg)
    \/ \E msg \in BagToSet(chan) : DrainSearchErr(msg)
    \/ \E msg \in BagToSet(chan) : DrainThumbnailOk(msg)
    \/ \E msg \in BagToSet(chan) : DrainThumbnailErr(msg)
    \/ DrainEmpty
    \/ \E list \in SearchLists : SearchWorkerOk(list)
    \/ SearchWorkerErr
    \/ ThumbWorkerOk
    \/ ThumbWorkerErr

Spec == Init /\ [][Next]_vars

(***************************************************************************)
(* Scheduling.  The main thread never blocks for longer than the poll      *)
(* timeout, so the loop keeps going round while the process runs; a search *)
(* thread runs search_rustypipe to its return and sends.                   *)
(***************************************************************************)
\* the catalogue of the runs checked for progress: no video, or two
LiveLists == {<<>>, <<VideoA, VideoB>>}

\* a step of the main thread: handle_key, the tick, or the drain loop, but
\* for the receipt of a failed thumbnail fetch
MainStepNoFail ==
    \/ PollTimeout
    \/ KeyQuit
    \/ KeyEnter
    \/ KeyUp
    \/ KeyDown
    \/ KeyBackspace
    \/ \E c \in SubmitChars : KeyChar(c) /\ query = <<>>
    \/ Tick
    \/ \E msg \in BagToSet(chan) : DrainSearchOk(msg)
    \/ \E msg \in BagToSet(chan) : DrainSearchErr(msg)
    \/ \E msg \in BagToSet(chan) : DrainThumbnailOk(msg)
    \/ DrainEmpty

\* a step of the main thread
MainStep ==
    \/ MainStepNoFail
    \/ \E msg \in BagToSet(chan) : DrainThumbnailErr(msg)

\* a step of the search thread: it returns from search_rustypipe and sends
SearchWorker ==
    \/ \E list \in LiveLists : SearchWorkerOk(list)
    \/ SearchWorkerErr

NextSearchLive ==
    \/ MainStep
    \/ SearchWorker
    \/ ThumbWorkerOk
    \/ ThumbWorkerErr

\* the main loop and the search threads are scheduled fairly
SpecSearchLive ==
    /\ Init
    /\ [][NextSearchLive]_vars
    /\ WF_vars(MainStep)
    /\ WF_vars(SearchWorker)

\* the program when no thumbnail fetch fails: every thumbnail thread returns
\* Ok(path) from download_thumbnail and sends
NextThumbLive ==
    \/ MainStepNoFail
    \/ SearchWorker
    \/ ThumbWorkerOk

\* the main loop and the thumbnail threads are scheduled fairly
SpecThumbLive ==
    /\ Init
    /\ [][NextThumbLive]_vars
    /\ WF_vars(MainStepNoFail)
    /\ WF_vars(ThumbWorkerOk)

(***************************************************************************)
(* The same program with the user editing the query freely (every          *)
(* character of Chars, at any cursor position) and a catalogue whose only  *)
(* video has no thumbnail URL, so that no thumbnail thread is ever spawned.*)
(***************************************************************************)
EditLists == {<<VideoN>>}

NextEdit ==
    \/ PollTimeout
    \/ KeyQuit
    \/ KeyEnter
    \/ KeyUp
    \/ KeyDown
    \/ KeyBackspace
    \/ KeyLeft
    \/ KeyRight
    \/ \E c \in Chars : KeyChar(c)
    \/ KeyOther
    \/ Tick
    \/ \E msg \in BagToSet(chan) : DrainSearchOk(msg)
    \/ \E msg \in BagToSet(chan) : DrainSearchErr(msg)
    \/ DrainEmpty
    \/ \E list \in EditLists : SearchWorkerOk(list)
    \/ SearchWorkerErr

SpecEdit == Init /\ [][NextEdit]_vars

(***************************************************************************)
(* Rendering: ui computes App.thumb_area for the frame, render_thumbnail   *)
(* prints the thumbnail unless the frame before showed the same one.       *)
(***************************************************************************)
Rect(x, y, width, height) == [x |-> x, y |-> y, width |-> width, height |-> height]

ThumbRender(path, area) == [path |-> path, area |-> area]

preview_height == 10

\* preview_inner of ui for a terminal of at least 15 rows, where the three
\* panes fit: the layout has a margin of 1, the Details pane is the last
\* preview_height rows inside it, and its block has a border of 1
preview_inner(size) ==
    LET chunk == Rect(1, size[2] - 1 - preview_height, size[1] - 2, preview_height)
    IN  Rect(chunk.x + 1, chunk.y + 1, chunk.width - 2, chunk.height - 2)

\* the thumb_area ui stores in App
ui_thumb_area(res, sel, size) ==
    LET inner == preview_inner(size) IN
    IF /\ sel < Len(res)
       /\ inner.width >= 50
       /\ inner.height >= 8
       /\ res[sel + 1].thumbnail_path # None
    THEN
      LET max_thumb_width == saturating_sub(inner.width, 20) IN
      IF max_thumb_width < 10
      THEN None
      ELSE
        LET img == IF res[sel + 1].thumbnail_size = None
                   THEN <<160, 90>>
                   ELSE res[sel + 1].thumbnail_size[1]
            fit == fit_dimensions_cells(img[1], img[2], max_thumb_width, inner.height)
        IN  IF fit[1] = 0 \/ fit[2] = 0
            THEN None
            ELSE Some(Rect(inner.x + saturating_sub(inner.width, fit[1]),
                           inner.y + saturating_sub(inner.height, fit[2]),
                           fit[1], fit[2]))
    ELSE None

\* mutant of SameThumb: the guard compares the path only
SameThumb_PathOnly(last, path, area) == last.path = path

\* the comparison of the render-diff guard
SameThumb(last, path, area) == last.path = path /\ last.area = area

\* mutant of render_thumbnail: a frame without a thumbnail keeps last_thumb
render_thumbnail_KeepsLast(area, res, sel, last) ==
    IF area = None \/ ~(sel < Len(res)) \/ res[sel + 1].thumbnail_path = None
    THEN [last_thumb |-> last, printed |-> None]
    ELSE
      LET path == res[sel + 1].thumbnail_path[1] IN
      IF last # None /\ SameThumb(last[1], path, area[1])
      THEN [last_thumb |-> last, printed |-> None]
      ELSE [last_thumb |-> Some(ThumbRender(path, area[1])),
            printed |-> Some(ThumbRender(path, area[1]))]

\* render_thumbnail: the new App.last_thumb, and what it hands to
\* viuer::print_from_file (None: nothing)
render_thumbnail(area, res, sel, last) ==
    IF area = None
    THEN [last_thumb |-> None, printed |-> None]
    ELSE IF ~(sel < Len(res))
    THEN [last_thumb |-> None, printed |-> None]
    ELSE IF res[sel + 1].thumbnail_path = None
    THEN [last_thumb |-> None, printed |-> None]
    ELSE
      LET path == res[sel + 1].thumbnail_path[1] IN
      IF last # None /\ SameThumb(last[1], path, area[1])
      THEN [last_thumb |-> last, printed |-> None]
      ELSE [last_thumb |-> Some(ThumbRender(path, area[1])),
            printed |-> Some(ThumbRender(path, area[1]))]

\* the thumbnail a frame has to show: the cached path of the selected result
\* and the rectangle ui gave it, if there are both
ToShow(area, res, sel) ==
    IF area # None /\ sel < Len(res) /\ res[sel + 1].thumbnail_path # None
    THEN Some(ThumbRender(res[sel + 1].thumbnail_path[1], area[1]))
    ELSE None

\* try_recv() finds the channel empty and the loop goes round: terminal.draw
\* with ui, then render_thumbnail, and on to the next poll
Frame ==
    /\ pc = "drain"
    /\ chan = EmptyBag
    /\ pc' = "poll"
    /\ LET area == ui_thumb_area(results, selected, term)
           r    == render_thumbnail(area, results, selected, last_thumb)
       IN  /\ thumb_area' = area
           /\ last_thumb' = r.last_thumb
           /\ blitted' = r.printed
           /\ frame' = ToShow(area, results, selected)
    /\ emitted' = IF blitted # None THEN blitted ELSE emitted
    /\ UNCHANGED <<appVars, chan, searchTasks, thumbTasks, key, term,
                   cacheVars, fitVars>>

\* the user has resized the terminal since the last frame.  Only ui reads
\* the size, so the resize is taken where the next frame is about to be drawn
Resize ==
    /\ pc = "drain"
    /\ chan = EmptyBag
    /\ term' \in TermSizes \ {term}
    /\ UNCHANGED <<appVars, chan, searchTasks, thumbTasks, pc, key,
                   thumb_area, last_thumb, blitted, frame, emitted,
                   cacheVars, fitVars>>

\* the catalogue of the rendering runs
RenderLists == {<<VideoA, VideoB>>}

NextRender ==
    \/ PollTimeout
    \/ KeyEnter
    \/ KeyUp
    \/ KeyDown
    \/ \E c \in SubmitChars : KeyChar(c) /\ query = <<>>
    \/ Tick
    \/ \E msg \in BagToSet(chan) : DrainSearchOk(msg)
    \/ \E msg \in BagToSet(chan) : DrainThumbnailOk(msg)
    \/ Frame
    \/ Resize
    \/ \E list \in RenderLists : SearchWorkerOk(list)
    \/ ThumbWorkerOk

SpecRender == Init /\ [][NextRender]_vars

(***************************************************************************)
(* download_thumbnail step by step, on the cache directory the thumbnail   *)
(* threads share: path.exists(), the request, fs::write (which creates or  *)
(* truncates the file and then writes the bytes), and the send.            *)
(***************************************************************************)
\* thread t moves on to position at
Moved(t, at) ==
    (thumbTasks (-) SetToBag({t})) (+) SetToBag({[t EXCEPT !.at = at]})

\* thread t returns result (ok, val) from download_thumbnail and sends it
Sent(t, ok, val) ==
    /\ chan' = chan (+) SetToBag({ThumbnailMsg(t.index, ok, val, t.stale)})
    /\ thumbTasks' = thumbTasks (-) SetToBag({t})

\* path.exists() is true: return Ok(path) without a request
FetchHit(t) ==
    /\ Running
    /\ BagIn(t, thumbTasks)
    /\ t.at = "exists"
    /\ files[safe_filename(t.url)] # "absent"
    /\ Sent(t, TRUE, download_thumbnail_path(t.url))
    /\ UNCHANGED <<appVars, searchTasks, pc, key, renderVars, cacheVars, fitVars>>

\* path.exists() is false
FetchMiss(t) ==
    /\ Running
    /\ BagIn(t, thumbTasks)
    /\ t.at = "exists"
    /\ files[safe_filename(t.url)] = "absent"
    /\ thumbTasks' = Moved(t, "get")
    /\ UNCHANGED <<appVars, chan, searchTasks, pc, key, renderVars, cacheVars, fitVars>>

\* reqwest::blocking::get(url) and response.bytes() succeed
FetchGetOk(t) ==
    /\ Running
    /\ BagIn(t, thumbTasks)
    /\ t.at = "get"
    /\ network' = [network EXCEPT ![t.url] = Counted(@)]
    /\ thumbTasks' = Moved(t, "write")
    /\ UNCHANGED <<appVars, chan, searchTasks, pc, key, renderVars,
                   files, written, fitVars>>

\* the request fails, Err("Download error: .."): nothing is downloaded
FetchGetErr(t) ==
    /\ Running
    /\ BagIn(t, thumbTasks)
    /\ t.at = "get"
    /\ Sent(t, FALSE, "Download error")
    /\ UNCHANGED <<appVars, searchTasks, pc, key, renderVars, cacheVars, fitVars>>

\* fs::write opens the file: it is created, or truncated if it exists
FetchCreate(t) ==
    /\ Running
    /\ BagIn(t, thumbTasks)
    /\ t.at = "write"
    /\ files' = [files EXCEPT ![safe_filename(t.url)] = "partial"]
    /\ written' = [written EXCEPT ![safe_filename(t.url)] = Counted(@)]
    /\ thumbTasks' = Moved(t, "writing")
    /\ UNCHANGED <<appVars, chan, searchTasks, pc, key, renderVars,
                   network, fitVars>>

\* fs::write has written every byte: return Ok(path)
FetchWriteOk(t) ==
    /\ Running
    /\ BagIn(t, thumbTasks)
    /\ t.at = "writing"
    /\ files' = [files EXCEPT ![safe_filename(t.url)] = "complete"]
    /\ Sent(t, TRUE, download_thumbnail_path(t.url))
    /\ UNCHANGED <<appVars, searchTasks, pc, key, renderVars,
                   network, written, fitVars>>

\* fs::write fails part-way: Err("Write error: .."); nothing removes the file
FetchWriteErr(t) ==
    /\ Running
    /\ BagIn(t, thumbTasks)
    /\ t.at = "writing"
    /\ Sent(t, FALSE, "Write error")
    /\ UNCHANGED <<appVars, searchTasks, pc, key, renderVars, cacheVars, fitVars>>

\* the catalogue of the cache runs
CacheLists == {<<VideoA, VideoB>>}

\* the cache directory at start: empty, or holding the file of an earlier run
InitCache ==
    /\ InitApp
    /\ files \in {EmptyCache,
                  [EmptyCache EXCEPT ![safe_filename(UrlA)] = "complete"]}
    /\ NoFitCall

NextCache ==
    \/ PollTimeout
    \/ KeyEnter
    \/ KeyUp
    \/ KeyDown
    \/ \E c \in SubmitChars : KeyChar(c) /\ query = <<>>
    \/ Tick
    \/ \E msg \in BagToSet(chan) : DrainSearchOk(msg)
    \/ \E msg \in BagToSet(chan) : DrainThumbnailOk(msg)
    \/ \E msg \in BagToSet(chan) : DrainThumbnailErr(msg)
    \/ DrainEmpty
    \/ \E list \in CacheLists : SearchWorkerOk(list)
    \/ \E t \in BagToSet(thumbTasks) : FetchHit(t)
    \/ \E t \in BagToSet(thumbTasks) : FetchMiss(t)
    \/ \E t \in BagToSet(thumbTasks) : FetchGetOk(t)
    \/ \E t \in BagToSet(thumbTasks) : FetchGetErr(t)
    \/ \E t \in BagToSet(thumbTasks) : FetchCreate(t)
    \/ \E t \in BagToSet(thumbTasks) : FetchWriteOk(t)
    \/ \E t \in BagToSet(thumbTasks) : FetchWriteErr(t)

SpecCache == InitCache /\ [][NextCache]_vars

(***************************************************************************)
(* fit_dimensions_cells on its own: one call, on arguments drawn from the  *)
(* small sides and from the sizes the program and its documentation use.   *)
(***************************************************************************)
ImageDims == (0..MaxImageDim) \cup {10, 90, 160}

BoundDims == (0..MaxBoundDim) \cup {8, 20, 40, 56, 76}

InitFit ==
    /\ InitApp
    /\ files = EmptyCache
    /\ fit_args \in ImageDims \X ImageDims \X BoundDims \X BoundDims
    /\ fit_ret = None

FitCall ==
    /\ fit_ret = None
    /\ fit_ret' = Some(fit_dimensions_cells(fit_args[1], fit_args[2],
                                            fit_args[3], fit_args[4]))
    /\ UNCHANGED <<appVars, chan, searchTasks, thumbTasks, pc, key,
                   renderVars, cacheVars, fit_args>>

NextFit == FitCall

SpecFit == InitFit /\ [][NextFit]_vars

(***************************************************************************)
(* Vocabulary of the properties below.                                     *)
(***************************************************************************)
\* the part of bag B whose elements satisfy P
BagWhere(B, P(_)) == [e \in {x \in BagToSet(B) : P(x)} |-> CopiesIn(e, B)]

IsSearchMsg(m) == m.kind = "Search"

\* search tasks in flight: spawned, SearchResult not yet drained
SearchInFlight == searchTasks + BagCardinality(BagWhere(chan, IsSearchMsg))

\* thumbnail tasks in flight that carry index i: spawned, ThumbnailResult
\* not yet drained
ThumbInFlight(i) ==
    LET has(e) == e.index = i
        msg(m) == m.kind = "Thumbnail" /\ m.index = i
    IN  BagCardinality(BagWhere(thumbTasks, has)) + BagCardinality(BagWhere(chan, msg))

\* those of them spawned for the current result list
CurrentThumbInFlight(i) ==
    LET has(e) == e.index = i /\ ~e.stale
        msg(m) == m.kind = "Thumbnail" /\ m.index = i /\ ~m.stale
    IN  BagCardinality(BagWhere(thumbTasks, has)) + BagCardinality(BagWhere(chan, msg))

\* the threads of the current list among a bag of thumbnail threads
Current(B) == LET fresh(e) == ~e.stale IN BagWhere(B, fresh)

\* a step in which handle_key handles a key press of the given code
KeyHandled(code) == pc = "poll" /\ pc' # "poll" /\ key'.code = code

\* a step of the drain loop that receives the Search message msg
ReceivedSearch(msg) ==
    /\ pc = "drain"
    /\ BagIn(msg, chan)
    /\ msg.kind = "Search"
    /\ CopiesIn(msg, chan') < CopiesIn(msg, chan)

\* a step of the drain loop that receives the Thumbnail message msg
ReceivedThumbnail(msg) ==
    /\ pc = "drain"
    /\ BagIn(msg, chan)
    /\ msg.kind = "Thumbnail"
    /\ chan' = chan (-) SetToBag({msg})

Indices == 0..(Len(results) - 1)

(***************************************************************************)
(* C1.  Draining ThumbnailResult(index, Ok(path)) of a task spawned before *)
(* the most recent replacement of the result list changes no result of the *)
(* newer list: not its path, not its size, not its in-flight flag.         *)
(***************************************************************************)
C1_StaleThumbnailDiscarded ==
    [][\A msg \in BagToSet(chan) :
          ReceivedThumbnail(msg) /\ msg.ok /\ msg.stale => results' = results]_vars

(***************************************************************************)
(* C2.  For every result index i, at most one thumbnail task carrying      *)
(* index i is in flight, also across a replacement of the result list.     *)
(***************************************************************************)
ThumbIndicesInFlight ==
    {t.index : t \in BagToSet(thumbTasks)} \cup
    {m.index : m \in {x \in BagToSet(chan) : x.kind = "Thumbnail"}}

C2_OneThumbnailTaskPerIndex ==
    \A i \in ThumbIndicesInFlight : ThumbInFlight(i) <= 1

(***************************************************************************)
(* C3.  At most one search task is in flight; Enter in Focus::Search while *)
(* a search is in flight spawns no task and leaves the searching flag, the *)
(* status, the result list, the selection and the focus unchanged.         *)
(***************************************************************************)
C3_OneSearchInFlight ==
    /\ [](SearchInFlight <= 1)
    /\ [][KeyHandled("Enter") /\ focus = "Search" /\ SearchInFlight > 0
             => UNCHANGED <<searchTasks, thumbTasks, chan, searching, status,
                            results, selected, focus>>]_vars

\* Enter was pressed in Focus::Search on a non-empty query while the search
\* submitted earlier was in flight (the status is no longer the "Searching"
\* line, so this Enter submitted nothing)
C3_Witness ==
    /\ pc = "tick"
    /\ key.code = "Enter"
    /\ focus = "Search"
    /\ trim(query) # <<>>
    /\ searching
    /\ SearchInFlight = 1
    /\ status = "Thumbnail ready."

(***************************************************************************)
(* C4.  Whenever the result list is empty the focus is Focus::Search.      *)
(***************************************************************************)
C4_EmptyListFocusSearch == results = <<>> => focus = "Search"

(***************************************************************************)
(* C5.  selected is a valid index of a non-empty result list and 0 for an  *)
(* empty one; Up and Down move it by at most one and never outside         *)
(* [0, len-1].                                                             *)
(***************************************************************************)
SelectedValid ==
    IF results = <<>> THEN selected = 0 ELSE selected \in Indices

C5_SelectedInRange ==
    /\ []SelectedValid
    /\ [][KeyHandled("Up") \/ KeyHandled("Down")
             => /\ selected' - selected \in {-1, 0, 1}
                /\ SelectedValid']_vars

\* Down has moved the selection to the last result, and another Down is
\* handled there without moving it
C5_Witness ==
    /\ pc = "tick"
    /\ key.code = "Down"
    /\ focus = "Results"
    /\ Len(results) = 2
    /\ selected = 1
    /\ results[2].thumbnail_path # None

(***************************************************************************)
(* C6.  For every result of the current list, thumbnail_loading is true    *)
(* exactly while the one thumbnail fetch spawned for that result is        *)
(* outstanding.                                                            *)
(***************************************************************************)
C6_LoadingIffFetchOutstanding ==
    \A i \in Indices :
        /\ CurrentThumbInFlight(i) <= 1
        /\ results[i + 1].thumbnail_loading <=> CurrentThumbInFlight(i) = 1

(***************************************************************************)
(* C7.  Within one result list, a selection change (Up, Down) spawns one   *)
(* thumbnail task, for the newly selected index, when that result has a    *)
(* thumbnail URL, no cached path and no fetch in flight, and spawns        *)
(* nothing otherwise: not when its fetch is still in flight, not when its  *)
(* path is set.                                                            *)
(***************************************************************************)
C7_OneTaskPerNewSelection ==
    [][KeyHandled("Up") \/ KeyHandled("Down")
          => LET i == selected'
                 spawned == thumbTasks' (-) thumbTasks
                 wanted ==
                     /\ focus' = "Results"
                     /\ selected' # selected \/ focus # "Results"
                     /\ i < Len(results)
                     /\ results[i + 1].thumbnail_url # None
                     /\ results[i + 1].thumbnail_path = None
                     /\ CurrentThumbInFlight(i) = 0
             IN  IF wanted
                 THEN spawned = SetToBag({ThumbTask(i, results[i + 1].thumbnail_url[1])})
                 ELSE spawned = EmptyBag]_vars

(***************************************************************************)
(* C8.  In Focus::Search every character key press inserts the character  *)
(* into the query at the cursor (a character index) and advances the       *)
(* cursor by one, whether or not a search is in flight; none is dropped or *)
(* taken as another command.                                               *)
(***************************************************************************)
\* the byte offset at which the character of index n starts
ByteOffsetOfChar(s, n) ==
    LET starts == {i \in 1..Len(s) : ~IsContinuationByte(s[i])}
    IN  IF n >= Cardinality(starts) THEN Len(s)
        ELSE (CHOOSE i \in starts : Cardinality({j \in starts : j < i}) = n) - 1

\* the same for every character but 'q' (under SpecEdit: a character after a
\* two-byte one is inserted at a byte offset that is no character boundary)
C8_NonQuitCharInserted ==
    [][\A c \in Chars \ {"q"} :
          pc = "poll" /\ pc' # "poll" /\ key' = KeyCode("Char", c) /\ focus = "Search"
             => /\ pc' = "tick"
                /\ query' = insert(query, ByteOffsetOfChar(query, cursor), c)
                /\ cursor' = cursor + 1]_vars

C8_EveryCharInserted ==
    [][\A c \in Chars :
          pc = "poll" /\ pc' # "poll" /\ key' = KeyCode("Char", c) /\ focus = "Search"
             => /\ pc' = "tick"
                /\ query' = insert(query, ByteOffsetOfChar(query, cursor), c)
                /\ cursor' = cursor + 1]_vars

(***************************************************************************)
(* C9.  Draining SearchResult(Ok(list)): the result list becomes list (its *)
(* videos, in order, none with a path or a size yet), selected becomes 0   *)
(* and searching false; if list is non-empty the focus becomes             *)
(* Focus::Results and exactly one thumbnail task is spawned, for index 0,  *)
(* when result 0 has a thumbnail URL; no task is spawned for another index.*)
(***************************************************************************)
C9_SearchOkReplacesList ==
    [][\A msg \in BagToSet(chan) :
          ReceivedSearch(msg) /\ msg.ok
             => LET list == msg.val
                    first == list # <<>> /\ list[1].thumbnail_url # None
                IN  /\ Len(results') = Len(list)
                    /\ \A n \in 1..Len(list) :
                          results'[n] = [list[n] EXCEPT
                                           !.thumbnail_loading = (n = 1 /\ first)]
                    /\ selected' = 0
                    /\ ~searching'
                    /\ list # <<>> => focus' = "Results"
                    /\ Current(thumbTasks') =
                          IF first
                          THEN SetToBag({ThumbTask(0, list[1].thumbnail_url[1])})
                          ELSE EmptyBag]_vars

\* a second list of two results has replaced the first: the fetch of the
\* new result 0 is the only one of the new list, beside a stale one
C9_Witness ==
    /\ pc = "drain"
    /\ status = "Found 2 results."
    /\ focus = "Results"
    /\ selected = 0
    /\ ~searching
    /\ results[1].thumbnail_loading
    /\ ~results[2].thumbnail_loading
    /\ Current(thumbTasks) = SetToBag({ThumbTask(0, UrlA)})
    /\ ThumbInFlight(0) = 2

(***************************************************************************)
(* C10.  Draining SearchResult(Err(msg)): searching becomes false and the  *)
(* status msg; the result list with every result's path, size and          *)
(* in-flight flag, the selection and the focus are unchanged; and a new    *)
(* search can be submitted afterwards: Enter in Focus::Search on a         *)
(* non-empty query, no search in flight, spawns a search task.             *)
(***************************************************************************)
C10_SearchErrKeepsResults ==
    /\ [][\A msg \in BagToSet(chan) :
             ReceivedSearch(msg) /\ ~msg.ok
                => /\ ~searching'
                   /\ SearchInFlight' = 0
                   /\ status' = msg.val
                   /\ UNCHANGED <<results, selected, focus, thumbTasks>>]_vars
    /\ [][KeyHandled("Enter") /\ focus = "Search" /\ trim(query) # <<>>
             /\ SearchInFlight = 0
                => searching' /\ searchTasks' = searchTasks + 1]_vars

\* a search has failed while the list held a fetched thumbnail and a fetch
\* in flight, with the second result selected
C10_Witness ==
    /\ pc = "drain"
    /\ status \in SearchErrors
    /\ ~searching
    /\ SearchInFlight = 0
    /\ focus = "Results"
    /\ Len(results) = 2
    /\ results[1].thumbnail_path # None
    /\ results[2].thumbnail_loading
    /\ selected = 1
(***************************************************************************)
(* C11.  Focus boundary keys.  Down in Focus::Search with an empty result  *)
(* list changes nothing: the focus stays Focus::Search and no task is      *)
(* spawned.  Up in Focus::Results with selected = 0 sets the focus to      *)
(* Focus::Search, leaves the selection and the result list (with every     *)
(* in-flight flag) unchanged and spawns no task.                           *)
(***************************************************************************)
C11_FocusBoundaryKeys ==
    [][/\ KeyHandled("Down") /\ focus = "Search" /\ results = <<>>
             => UNCHANGED <<appVars, chan, searchTasks, thumbTasks>>
       /\ KeyHandled("Up") /\ focus = "Results" /\ selected = 0
             => /\ focus' = "Search"
                /\ UNCHANGED <<selected, results, chan, searchTasks, thumbTasks>>]_vars

\* Up has been handled at index 0 while the fetch of result 0 was in flight:
\* the focus is Focus::Search, the only way there from a non-empty list
C11_Witness ==
    /\ pc = "tick"
    /\ key.code = "Up"
    /\ focus = "Search"
    /\ selected = 0
    /\ Len(results) = 2
    /\ results[1].thumbnail_loading
    /\ CurrentThumbInFlight(0) = 1

\* Down has been handled in Focus::Search on an empty result list
C11_DownOnEmpty ==
    /\ pc = "tick"
    /\ key.code = "Down"
    /\ focus = "Search"
    /\ results = <<>>

(***************************************************************************)
(* C12.  Render-diff guard.  A frame whose thumbnail (cached path of the   *)
(* selected result, target rectangle) is that of the frame before prints   *)
(* nothing, and a frame whose thumbnail differs from that of the frame     *)
(* before prints it: over consecutive frames with the same path and        *)
(* rectangle viuer::print_from_file is called once, on the first; when the *)
(* rectangle changes between two frames the later frame prints again.      *)
(***************************************************************************)
\* a step that draws a frame: ui, then render_thumbnail
FrameDrawn == pc = "drain" /\ pc' = "poll"

C12_RenderDiffGuard ==
    [][FrameDrawn /\ frame' # None
          => /\ frame' = frame => blitted' = None
             /\ frame' # frame => blitted' = frame'
             /\ frame # None /\ frame'[1].area # frame[1].area
                   => blitted' = frame']_vars

\* the second of two frames with the same path and rectangle: the first
\* printed the thumbnail, this one printed nothing
C12_Witness ==
    /\ pc = "poll"
    /\ frame # None
    /\ blitted = None
    /\ emitted = frame
    /\ last_thumb = frame

\* a frame after a resize: the same path is printed again in a new rectangle
C12_ResizeReprints ==
    /\ pc = "poll"
    /\ blitted # None
    /\ emitted # None
    /\ blitted[1].path = emitted[1].path
    /\ blitted[1].area # emitted[1].area

(***************************************************************************)
(* C13.  fit_dimensions_cells: for every image size and bound whose four   *)
(* dimensions are positive, the returned (w, h) has w <= bound_width and   *)
(* h <= bound_height.                                                      *)
(***************************************************************************)
AllPositive == \A i \in 1..4 : fit_args[i] > 0

C13_FitWithinBound ==
    fit_ret # None /\ AllPositive
        => fit_ret[1][1] <= fit_args[3] /\ fit_ret[1][2] <= fit_args[4]

\* the default image of 160x90 pixels scaled down into 56x8 cells
C13_Witness ==
    /\ fit_args = <<160, 90, 56, 8>>
    /\ fit_ret = Some(<<28, 8>>)

(***************************************************************************)
(* C14.  fit_dimensions_cells returns (0, 0) when one of the four          *)
(* dimensions is zero, and w >= 1 and h >= 1 when all are positive: the    *)
(* result never has exactly one zero component.                            *)
(***************************************************************************)
C14_ZeroIffDegenerate ==
    fit_ret # None
        => /\ ~AllPositive => fit_ret[1] = <<0, 0>>
           /\ AllPositive => fit_ret[1][1] >= 1 /\ fit_ret[1][2] >= 1

\* the first half of it, which holds: a zero dimension gives (0, 0)
C14_DegenerateGivesZero ==
    fit_ret # None /\ ~AllPositive => fit_ret[1] = <<0, 0>>

(***************************************************************************)
(* C15.  fit_dimensions_cells, native fit: for positive dimensions with    *)
(* img_width <= bound_width and img_height <= 2 * bound_height the result  *)
(* is (img_width, ceil(img_height / 2)); an image of 10x10 in a bound of   *)
(* 40x20 gives (10, 5).                                                    *)
(***************************************************************************)
C15_NativeFit ==
    fit_ret # None /\ AllPositive
       /\ fit_args[1] <= fit_args[3] /\ fit_args[2] <= 2 * fit_args[4]
        => fit_ret[1] = <<fit_args[1], (fit_args[2] + 1) \div 2>>

C15_Witness ==
    /\ fit_args = <<10, 10, 40, 20>>
    /\ fit_ret = Some(<<10, 5>>)

(***************************************************************************)
(* C16.  Thumbnail cache: for every URL, over every interleaving of the    *)
(* thumbnail threads that fetch it, the URL is downloaded from the network *)
(* at most once and its cache file is written at most once; and once the   *)
(* file has been written, no fetch downloads the URL or writes the file.   *)
(***************************************************************************)
C16_FetchedAtMostOnce ==
    /\ [](\A url \in Urls :
             /\ network[url] # "again"
             /\ written[safe_filename(url)] # "again")
    /\ [][\A url \in Urls :
             files[safe_filename(url)] = "complete"
                => /\ network'[url] = network[url]
                   /\ written'[safe_filename(url)] = written[safe_filename(url)]]_vars

\* its second half alone: a file once written is not fetched or written again
C16_WrittenNeverRewritten ==
    [][\A url \in Urls :
          files[safe_filename(url)] = "complete"
             => /\ network'[url] = network[url]
                /\ written'[safe_filename(url)] = written[safe_filename(url)]]_vars

(***************************************************************************)
(* C17.  Thumbnail cache, write atomicity: when a fetch fails part-way     *)
(* through writing the downloaded bytes, no file exists at the cache path  *)
(* afterwards, so that no later fetch of the URL returns, as a cache hit,  *)
(* a file that was only partially written.                                 *)
(***************************************************************************)
\* a step in which thread t returns (ok, val) from download_thumbnail
Returned(t, ok, val) ==
    /\ BagIn(t, thumbTasks)
    /\ thumbTasks' = thumbTasks (-) SetToBag({t})
    /\ chan' = chan (+) SetToBag({ThumbnailMsg(t.index, ok, val, t.stale)})

Writing(url) == \E w \in BagToSet(thumbTasks) : w.url = url /\ w.at = "writing"

C17_NoPartialFileLeft ==
    [][\A t \in BagToSet(thumbTasks) :
          /\ t.at = "writing" /\ Returned(t, FALSE, "Write error")
                => files'[safe_filename(t.url)] = "absent"
          /\ t.at = "exists" /\ Returned(t, TRUE, download_thumbnail_path(t.url))
                /\ ~Writing(t.url)
                => files[safe_filename(t.url)] = "complete"]_vars

\* a fetch has returned the partial file a failed write left as a cache hit:
\* the file was written once, nothing is writing it, and its path is queued
\* as an Ok result
C17_PartialFileHit ==
    \E url \in Urls :
       /\ files[safe_filename(url)] = "partial"
       /\ written[safe_filename(url)] = "once"
       /\ thumbTasks = EmptyBag
       /\ \E m \in BagToSet(chan) :
             m.kind = "Thumbnail" /\ m.ok /\ m.val = download_thumbnail_path(url)

(***************************************************************************)
(* C18.  Draining ThumbnailResult(index, Err(msg)).  With index < len the  *)
(* in-flight flag of that result becomes false and the status msg, its     *)
(* thumbnail path is left as it is (an absent path stays absent), nothing  *)
(* else of the result list changes, and no thumbnail task is spawned (no   *)
(* automatic retry).  With index >= len the message is discarded: the      *)
(* whole application state is unchanged.                                   *)
(***************************************************************************)
C18_ThumbnailErrClearsFlag ==
    [][\A msg \in BagToSet(chan) :
          ReceivedThumbnail(msg) /\ ~msg.ok
             => IF msg.index < Len(results)
                THEN /\ ~results'[msg.index + 1].thumbnail_loading
                     /\ status' = msg.val
                     /\ results'[msg.index + 1].thumbnail_path
                           = results[msg.index + 1].thumbnail_path
                     /\ results' = [results EXCEPT
                                      ![msg.index + 1].thumbnail_loading = FALSE]
                     /\ UNCHANGED <<thumbTasks, searchTasks, query, cursor,
                                    selected, searching, focus>>
                ELSE UNCHANGED <<appVars, thumbTasks, searchTasks>>]_vars

\* the fetch of the selected result has failed: the status is the error, the
\* result has no path, its flag is clear and no fetch for it is in flight
C18_Witness ==
    /\ pc = "drain"
    /\ status \in ThumbErrors
    /\ focus = "Results"
    /\ Len(results) = 2
    /\ selected = 0
    /\ results[1].thumbnail_url # None
    /\ results[1].thumbnail_path = None
    /\ ~results[1].thumbnail_loading
    /\ ThumbInFlight(0) = 0

\* an Err result is queued whose index is outside the result list
C18_ErrOutOfRange ==
    /\ pc = "drain"
    /\ \E m \in BagToSet(chan) :
          m.kind = "Thumbnail" /\ ~m.ok /\ m.index >= Len(results)

(***************************************************************************)
(* C19.  Render-diff guard reset.  A frame that has no thumbnail to show   *)
(* (no target rectangle, no selected result or no cached path) clears      *)
(* App.last_thumb, and the next frame that has one prints it, also when    *)
(* its path and rectangle are those printed last before.                   *)
(***************************************************************************)
C19_GuardReset ==
    [][FrameDrawn
          => /\ frame' = None => last_thumb' = None
             /\ frame = None /\ frame' # None => blitted' = frame']_vars

\* a frame has printed the very thumbnail that was printed last before it:
\* a frame without a thumbnail lay between the two
C19_Witness ==
    /\ pc = "poll"
    /\ blitted # None
    /\ blitted = emitted

(***************************************************************************)
(* C20.  After any sequence of key presses (characters, also of several    *)
(* bytes, Backspace, Left, Right) the cursor is a character index into the *)
(* query, 0 <= cursor <= query.chars().count(), and every insert and every *)
(* Backspace is applied at that character position and does not fail.      *)
(***************************************************************************)
C20_CursorIsCharIndex ==
    /\ [](cursor >= 0 /\ cursor <= chars_count(query))
    /\ [][\A c \in Chars \ {"q"} :
             pc = "poll" /\ pc' # "poll" /\ key' = KeyCode("Char", c)
                /\ focus = "Search"
                => /\ pc' = "tick"
                   /\ query' = insert(query, ByteOffsetOfChar(query, cursor), c)
                   /\ cursor' = cursor + 1]_vars
    /\ [][KeyHandled("Backspace") /\ focus = "Search" /\ cursor > 0
             => /\ pc' = "tick"
                /\ query' = remove(query, ByteOffsetOfChar(query, cursor - 1))
                /\ cursor' = cursor - 1]_vars

\* what does hold: the cursor never exceeds the number of characters
C20_CursorInRange == cursor >= 0 /\ cursor <= chars_count(query)

\* handle_key has panicked on a query that holds a character of two bytes
C20_Panicked == pc = "panicked" /\ chars_count(query) < Len(query)

(***************************************************************************)
(* C21.  In every reachable state the searching flag is true if and only   *)
(* if exactly one search task is outstanding (its thread running, or its   *)
(* result sent and not yet drained), and never more than one is.  With the *)
(* main loop and the search threads scheduled fairly, every submitted      *)
(* search clears the flag in the end (unless the process ends first), and  *)
(* with the flag clear Enter in Focus::Search on a non-empty query submits *)
(* a search.                                                               *)
(***************************************************************************)
C21_SearchingIffOneSearch ==
    /\ SearchInFlight <= 1
    /\ searching <=> SearchInFlight = 1

C21_SearchingFlag ==
    /\ []C21_SearchingIffOneSearch
    /\ searching ~> (~searching \/ ~Running)
    /\ [][KeyHandled("Enter") /\ focus = "Search" /\ trim(query) # <<>>
             /\ ~searching
                => searching' /\ SearchInFlight' = 1]_vars

\* the flag alone, without the end of the process as a way out (it fails: the
\* user can quit while a search is outstanding)
C21_FlagClearedEvenAfterQuit == searching ~> ~searching

\* a second search has been submitted after the first one, which filled the
\* result list, had cleared the flag
C21_Witness ==
    /\ pc = "tick"
    /\ key.code = "Enter"
    /\ searching
    /\ SearchInFlight = 1
    /\ results # <<>>
    /\ status = "Searching for 'a'..."

(***************************************************************************)
(* C22.  With the main loop and the thumbnail threads scheduled fairly and *)
(* no thumbnail fetch failing: whenever the focus is Focus::Results and    *)
(* the selected result has a thumbnail URL and no cached path, a fetch for *)
(* it is outstanding, and in the end the result has a path, unless the     *)
(* selection, the focus or the result list changes (or the process ends)   *)
(* first.  No selected result is left for ever with neither a path nor an  *)
(* outstanding fetch.                                                      *)
(***************************************************************************)
\* the indices of the results of a search
ListIndices == UNION {0..(Len(list) - 1) : list \in LiveLists}

\* result i is selected in Focus::Results, has a URL and no path yet
ThumbnailMissing(i) ==
    /\ focus = "Results"
    /\ selected = i
    /\ i < Len(results)
    /\ results[i + 1].thumbnail_url # None
    /\ results[i + 1].thumbnail_path = None

C22_SelectedThumbnailArrives ==
    /\ [](\A i \in ListIndices :
             ThumbnailMissing(i) => CurrentThumbInFlight(i) >= 1)
    /\ \A i \in ListIndices :
          ThumbnailMissing(i) ~> (~ThumbnailMissing(i) \/ ~Running)

\* the fetch spawned when Down selected the second result has arrived: the
\* selected result has its path
C22_Witness ==
    /\ pc = "drain"
    /\ focus = "Results"
    /\ selected = 1
    /\ Len(results) = 2
    /\ results[2].thumbnail_path = Some(download_thumbnail_path(UrlB))
    /\ status = "Thumbnail ready."

====
